---- MODULE Spec2Model ----
(***************************************************************************)
(* Remote synchronisation and ledger consistency of the vital-signs        *)
(* registration client (despachador8.py): clients that share one remote    *)
(* ledger, signos.csv, and each keep a local copy of it; and the SSH       *)
(* connection handling of that client and of the viewer (enfermera15.py).  *)
(*                                                                         *)
(* A text is a sequence of one-character strings.  A CSV artifact is a     *)
(* header line (column names) and a sequence of data lines (sequences of   *)
(* texts); a zero-byte file has no header line.  pandas' read_csv and      *)
(* to_csv are modelled on that representation: NA tokens, dtype inference  *)
(* per column and the printed form of each dtype.                          *)
(***************************************************************************)
EXTENDS Integers, Sequences, FiniteSets, TLC

(***************************************************************************)
(* Bounds of the model.                                                    *)
(***************************************************************************)
MaxOps == 2
MaxFaults == 1
MaxEdits == 2
MaxLen == 4

(***************************************************************************)
(* Program constants.                                                      *)
(***************************************************************************)
MAX_RETRIES == 3
RETRY_DELAY == 5
BomBytes == 3

Clients == {1, 2}

columns ==
  <<"timestamp", "id_paciente", "nombre_paciente", "presion_arterial",
    "temperatura", "oximetria", "estado">>

(***************************************************************************)
(* Generic helpers on sequences.                                           *)
(***************************************************************************)
Range(s) == {s[i] : i \in DOMAIN s}

RECURSIVE SumSeq(_)
SumSeq(s) == IF s = <<>> THEN 0 ELSE Head(s) + SumSeq(Tail(s))

RECURSIVE SelectIdx(_, _, _)
\* the subsequence of s at the positions of s that are in keep, order kept
SelectIdx(s, keep, i) ==
  IF i > Len(s) THEN <<>>
  ELSE (IF i \in keep THEN <<s[i]>> ELSE <<>>) \o SelectIdx(s, keep, i + 1)

IndexOf(s, x) == IF x \in Range(s) THEN CHOOSE i \in DOMAIN s : s[i] = x ELSE 0

(***************************************************************************)
(* Texts.                                                                  *)
(***************************************************************************)
Digits == {"0", "1", "2", "3", "4", "5", "6", "7", "8", "9"}
LF == "\n"
CR == "\r"
Whitespace == {" ", "\t", LF, CR}

IsDigits(s) == Len(s) > 0 /\ \A i \in DOMAIN s : s[i] \in Digits

RECURSIVE LStrip(_)
LStrip(s) == IF s # <<>> /\ Head(s) \in Whitespace THEN LStrip(Tail(s)) ELSE s

RECURSIVE RStrip(_)
RStrip(s) ==
  IF s # <<>> /\ s[Len(s)] \in Whitespace THEN RStrip(SubSeq(s, 1, Len(s) - 1)) ELSE s

\* str.strip()
Strip(s) == RStrip(LStrip(s))

RECURSIVE ReplaceNewlines(_)
\* str.replace(r'\r\n|\n|\r', ' ', regex=True): leftmost alternative first
ReplaceNewlines(s) ==
  IF s = <<>> THEN <<>>
  ELSE IF Len(s) >= 2 /\ s[1] = CR /\ s[2] = LF
       THEN <<" ">> \o ReplaceNewlines(SubSeq(s, 3, Len(s)))
  ELSE IF s[1] \in {LF, CR} THEN <<" ">> \o ReplaceNewlines(Tail(s))
  ELSE <<s[1]>> \o ReplaceNewlines(Tail(s))

\* the cleaning of one object column of the new record
CleanText(s) == Strip(ReplaceNewlines(s))

(***************************************************************************)
(* pandas.read_csv: NA tokens and dtype inference of a column.             *)
(***************************************************************************)
NAValues ==
  { <<>>, <<"N", "A">>, <<"N", "/", "A">>, <<"n", "/", "a">>, <<"N", "a", "N">>,
    <<"n", "a", "n">>, <<"N", "U", "L", "L">>, <<"n", "u", "l", "l">>,
    <<"N", "o", "n", "e">> }

IsNA(s) == s \in NAValues

Unsigned(s) == IF s # <<>> /\ Head(s) \in {"-", "+"} THEN Tail(s) ELSE s
SignOf(s) == IF s # <<>> /\ Head(s) = "-" THEN <<"-">> ELSE <<>>

IsIntText(s) == IsDigits(Unsigned(s))

DotAt(s) == IndexOf(s, ".")
IntPart(s) == IF DotAt(s) = 0 THEN s ELSE SubSeq(s, 1, DotAt(s) - 1)
FracPart(s) == IF DotAt(s) = 0 THEN <<>> ELSE SubSeq(s, DotAt(s) + 1, Len(s))

IsFloatText(s) ==
  LET u == Unsigned(s) IN
    /\ u # <<>>
    /\ \A i \in DOMAIN u : u[i] \in Digits \cup {"."}
    /\ Cardinality({i \in DOMAIN u : u[i] = "."}) <= 1
    /\ \E i \in DOMAIN u : u[i] \in Digits

RECURSIVE DropLeadingZeros(_)
DropLeadingZeros(s) ==
  IF Len(s) > 1 /\ Head(s) = "0" THEN DropLeadingZeros(Tail(s)) ELSE s

RECURSIVE DropTrailingZeros(_)
DropTrailingZeros(s) ==
  IF s # <<>> /\ s[Len(s)] = "0" THEN DropTrailingZeros(SubSeq(s, 1, Len(s) - 1)) ELSE s

\* the printed form of an int64 cell
IntRepr(s) == SignOf(s) \o DropLeadingZeros(Unsigned(s))

\* the printed form of a float64 cell (repr of the float)
FloatRepr(s) ==
  LET u == Unsigned(s)
      ip == IF IntPart(u) = <<>> THEN <<"0">> ELSE DropLeadingZeros(IntPart(u))
      fp == DropTrailingZeros(FracPart(u))
  IN SignOf(s) \o ip \o <<".">> \o (IF fp = <<>> THEN <<"0">> ELSE fp)

\* the dtype read_csv gives a column from its raw cells; asStr: dtype=str was asked
ColKind(cells, asStr) ==
  LET vals == {cells[i] : i \in {j \in DOMAIN cells : ~IsNA(cells[j])}}
      anyNA == \E i \in DOMAIN cells : IsNA(cells[i])
  IN IF asStr \/ cells = <<>> THEN "object"
     ELSE IF \A v \in vals : IsIntText(v) THEN (IF anyNA THEN "float" ELSE "int")
     ELSE IF \A v \in vals : IsFloatText(v) THEN "float"
     ELSE "object"

\* a parsed cell, held as the text to_csv prints for it (NaN prints as the empty text)
Cell(kind, raw) ==
  IF IsNA(raw) THEN <<>>
  ELSE IF kind = "int" THEN IntRepr(raw)
  ELSE IF kind = "float" THEN FloatRepr(raw)
  ELSE raw

(***************************************************************************)
(* Artifacts (files) and data frames.                                      *)
(***************************************************************************)
NoFile == [exists |-> FALSE, bom |-> FALSE, header |-> <<>>, rows |-> <<>>]
ZeroBytes == [exists |-> TRUE, bom |-> FALSE, header |-> <<>>, rows |-> <<>>]

\* field k of a data line, NaN-padded when the line is short
Field(line, k) == IF k <= Len(line) THEN line[k] ELSE <<>>

LineBytes(line) == SumSeq([k \in DOMAIN line |-> Len(line[k])]) + Len(line)

\* os.path.getsize / sftp.stat(...).st_size
FileSize(f) ==
  IF f.header = <<>> THEN 0
  ELSE (IF f.bom THEN BomBytes ELSE 0)
       + LineBytes(f.header)
       + SumSeq([i \in DOMAIN f.rows |-> LineBytes(f.rows[i])])

EmptyData(f) == f.header = <<>>
\* a data line after the first holds more fields than the header (the first data line
\* of every ledger of the model has the header's field count)
ParserFails(f) == \E i \in DOMAIN f.rows : Len(f.rows[i]) > Len(f.header)

\* pd.read_csv of a parseable file: [cols, rows], a row being a function on cols
ReadCsv(f, strCols) ==
  LET kind(k) == ColKind([i \in DOMAIN f.rows |-> Field(f.rows[i], k)],
                         f.header[k] \in strCols)
  IN [cols |-> f.header,
      rows |-> [i \in DOMAIN f.rows |->
                 [c \in Range(f.header) |->
                    LET k == IndexOf(f.header, c)
                    IN Cell(kind(k), Field(f.rows[i], k))]]]

\* pd.DataFrame(columns=columns)
EmptyFrame == [cols |-> columns, rows |-> <<>>]

\* df.empty
FrameEmpty(df) == df.cols = <<>> \/ df.rows = <<>>

\* df.to_csv(path, index=False[, encoding='utf-8-sig'])
ToCsv(df, withBom) ==
  [exists |-> TRUE, bom |-> withBom, header |-> df.cols,
   rows |-> [i \in DOMAIN df.rows |-> [k \in DOMAIN df.cols |-> df.rows[i][df.cols[k]]]]]

\* pd.DataFrame(columns=columns).to_csv(path, index=False)
EmptyLedger == ToCsv(EmptyFrame, FALSE)

\* df with every column of cs it lacks added, its cells ""
WithColumns(df, cs) ==
  LET missing == SelectSeq(cs, LAMBDA c : c \notin Range(df.cols))
      all == df.cols \o missing
  IN [cols |-> all,
      rows |-> [i \in DOMAIN df.rows |->
                 [c \in Range(all) |->
                    IF c \in DOMAIN df.rows[i] THEN df.rows[i][c] ELSE <<>>]]]

\* pd.concat([a, b], ignore_index=True): union of the columns, NaN where a frame lacks one
Concat(a, b) ==
  LET all == a.cols \o SelectSeq(b.cols, LAMBDA c : c \notin Range(a.cols))
      fill(r) == [c \in Range(all) |-> IF c \in DOMAIN r THEN r[c] ELSE <<>>]
  IN [cols |-> all,
      rows |-> [i \in DOMAIN a.rows |-> fill(a.rows[i])]
               \o [i \in DOMAIN b.rows |-> fill(b.rows[i])]]

\* df[cs], every column of cs being in df
Project(df, cs) ==
  [cols |-> cs, rows |-> [i \in DOMAIN df.rows |-> [c \in Range(cs) |-> df.rows[i][c]]]]

\* df[df[col] == v] (eq) and df[df[col] != v] (~eq)
FilterRows(df, col, v, eq) ==
  [cols |-> df.cols,
   rows |-> SelectIdx(df.rows,
                      {i \in DOMAIN df.rows : (df.rows[i][col] = v) <=> eq}, 1)]

(***************************************************************************)
(* The records the form submits and the ledgers the remote store may hold  *)
(* when the clients start.                                                 *)
(***************************************************************************)
Dig(n) == <<"0", "1", "2", "3", "4", "5", "6", "7", "8", "9">>[n + 1]

TsPrefix == <<"2", "0", "2", "4", "-", "0", "1", "-", "0", "1", " ", "1">>
Ts0 == <<"2", "0", "2", "3", "-", "1", "2", "-", "3", "1", " ", "0", "9", ":", "0", "0">>
Ts1 == <<"2", "0", "2", "3", "-", "1", "2", "-", "3", "1", " ", "0", "9", ":", "1", "0">>
Ts2 == <<"2", "0", "2", "3", "-", "1", "2", "-", "3", "1", " ", "0", "9", ":", "2", "0">>

\* the validated form of client c at its n-th operation (estado 'A' for every new record)
nuevo_registro(c, n) ==
  [timestamp |-> TsPrefix \o <<Dig(c), ":", "0", Dig(n)>>,
   id_paciente |-> IF c = 1 THEN <<"5", "5", "1", "2", "3", "4", "5", "6", "7", "8">>
                   ELSE <<"0", "5", "1", "2", "3", "4", "5", "6", "7", "9">>,
   nombre_paciente |-> IF c = 1 THEN <<"A", "n", "a">> ELSE <<"L", "u", "z", " ">>,
   presion_arterial |-> IF c = 1 THEN <<"1", "2", "0", "/", "8", "0">>
                        ELSE <<"1", "1", "0", "/", "7", "0">>,
   temperatura |-> IF c = 1 THEN <<"3", "6", ".", "5", "0">> ELSE <<"3", "7", ".", "2", "5">>,
   oximetria |-> IF c = 1 THEN <<"9", "8">> ELSE <<"9", "7">>,
   estado |-> <<"A">>]

\* no form submitted yet
NoRecord == [col \in Range(columns) |-> <<>>]

\* a ledger written earlier: an active row, a deactivated row, a row of another status
SeedLedger ==
  [exists |-> TRUE, bom |-> TRUE, header |-> columns,
   rows |-> <<
     <<Ts0, <<"5", "5", "0", "0", "0", "0", "0", "0", "0", "1">>, <<"E", "v", "a">>,
       <<"1", "1", "8", "/", "7", "9">>, <<"3", "6", ".", "5", "0">>, <<"9", "9">>, <<"A">>>>,
     <<Ts1, <<"5", "5", "0", "0", "0", "0", "0", "0", "0", "2">>, <<"L", "e", "o">>,
       <<"1", "2", "0", "/", "8", "0">>, <<"3", "6", ".", "4">>, <<"9", "8">>, <<"X">>>>,
     <<Ts2, <<"0", "5", "0", "0", "0", "0", "0", "0", "0", "3">>, <<"N", "o", "e">>,
       <<"1", "1", "0", "/", "7", "0">>, <<"3", "7">>, <<"9", "7">>, <<"N">>>> >>]

\* a ledger whose second line holds more fields than its first (read_csv: ParserError)
RaggedLedger ==
  [exists |-> TRUE, bom |-> FALSE, header |-> columns,
   rows |-> << <<Ts0, <<"5", "5", "0", "0", "0", "0", "0", "0", "0", "1">>, <<"E", "v", "a">>,
                 <<"1", "1", "8", "/", "7", "9">>, <<"3", "6", ".", "4">>, <<"9", "9">>,
                 <<"A">>>>,
               <<Ts1, <<"5", "5", "0", "0", "0", "0", "0", "0", "0", "2">>, <<"L", "e", "o">>,
                 <<"1", "2", "0", "/", "8", "0">>, <<"3", "6", ".", "4">>, <<"9", "8">>,
                 <<"A">>, <<"z">>>> >>]

\* a ledger of an older layout, without the estado column
LegacyLedger ==
  [exists |-> TRUE, bom |-> FALSE,
   header |-> <<"timestamp", "id_paciente", "nombre_paciente", "presion_arterial",
                "temperatura", "oximetria">>,
   rows |-> << <<Ts0, <<"5", "5", "0", "0", "0", "0", "0", "0", "0", "1">>, <<"E", "v", "a">>,
                 <<"1", "1", "8", "/", "7", "9">>, <<"3", "6", ".", "4">>, <<"9", "9">>>> >>]

\* a ledger of the newer layout (numero_economico and correo columns), whose first
\* row has been notified (correo 1)
VariantLedger ==
  [exists |-> TRUE, bom |-> TRUE,
   header |-> <<"timestamp", "id_paciente", "nombre_paciente", "numero_economico",
                "presion_arterial", "temperatura", "oximetria", "estado", "correo">>,
   rows |-> << <<Ts0, <<"5", "5", "0", "0", "0", "0", "0", "0", "0", "1">>, <<"E", "v", "a">>,
                 <<"B", "7">>, <<"1", "1", "8", "/", "7", "9">>, <<"3", "6", ".", "4">>,
                 <<"9", "9">>, <<"A">>, <<"1">>>>,
               <<Ts1, <<"5", "5", "0", "0", "0", "0", "0", "0", "0", "2">>, <<"L", "e", "o">>,
                 <<"B", "8">>, <<"1", "2", "0", "/", "8", "0">>, <<"3", "6", ".", "4">>,
                 <<"9", "8">>, <<"A">>, <<"0">>>> >>]

InitLedgers == {NoFile, SeedLedger, RaggedLedger, LegacyLedger, VariantLedger}

(***************************************************************************)
(* Keys of the records of an artifact (a record is named by its timestamp).*)
(***************************************************************************)
ColIdx(f, col) == IndexOf(f.header, col)

LinesOf(f) == IF ParserFails(f) THEN <<>> ELSE f.rows

Keys(f) ==
  IF ColIdx(f, "timestamp") = 0 THEN {}
  ELSE {Field(LinesOf(f)[i], ColIdx(f, "timestamp")) : i \in DOMAIN LinesOf(f)}

IsX(v) == v = <<"X">>

\* the keys of the lines whose estado is 'X'
KeysX(f) ==
  IF ColIdx(f, "timestamp") = 0 \/ ColIdx(f, "estado") = 0 THEN {}
  ELSE {Field(LinesOf(f)[i], ColIdx(f, "timestamp")) :
          i \in {j \in DOMAIN LinesOf(f) : IsX(Field(LinesOf(f)[j], ColIdx(f, "estado")))}}

(***************************************************************************)
(* sync_with_remote after download_remote_file has returned dlok, the      *)
(* local ledger being f: the local ledger it leaves and the value returned.*)
(***************************************************************************)
SyncAfter(f, dlok) ==
  IF ~dlok
  THEN [file |-> IF ~f.exists THEN EmptyLedger
                 ELSE IF EmptyData(f) \/ ParserFails(f) THEN EmptyLedger
                 ELSE IF FrameEmpty(ReadCsv(f, {})) THEN EmptyLedger
                 ELSE f,
        res |-> FALSE]
  ELSE IF EmptyData(f) THEN [file |-> EmptyLedger, res |-> FALSE]
  ELSE IF ParserFails(f) THEN [file |-> f, res |-> FALSE]
  ELSE [file |-> f, res |-> TRUE]

(***************************************************************************)
(* save_to_csv between its synchronisation and its upload.                 *)
(***************************************************************************)
\* the existing ledger as loaded and purged; raised: the load left the handler by KeyError
LoadExisting(f) ==
  IF ~f.exists \/ EmptyData(f) \/ ParserFails(f)
  THEN [raised |-> FALSE, df |-> EmptyFrame]
  ELSE LET df == ReadCsv(f, {"id_paciente"}) IN
       IF "estado" \notin Range(df.cols)
       THEN [raised |-> TRUE, df |-> EmptyFrame]
       ELSE LET kept == FilterRows(df, "estado", <<"X">>, FALSE) IN
            [raised |-> FALSE,
             df |-> IF FrameEmpty(kept) THEN EmptyFrame ELSE WithColumns(kept, columns)]

\* df_new, its object columns cleaned
NewFrame(data) ==
  [cols |-> columns, rows |-> <<[c \in Range(columns) |-> CleanText(data[c])]>>]

\* the ledger save_to_csv writes locally
CombinedLedger(f, data) ==
  ToCsv(Project(WithColumns(Concat(LoadExisting(f).df, NewFrame(data)), columns), columns),
        TRUE)

(***************************************************************************)
(* main: the load of the ledger, the table edit and the confirmed purge.   *)
(***************************************************************************)
\* pacientes_df as main loads it
MainLoad(f) ==
  IF ~f.exists \/ EmptyData(f) \/ ParserFails(f) THEN EmptyFrame
  ELSE LET df == ReadCsv(f, {"id_paciente"}) IN
       IF "id_paciente" \notin Range(df.cols) THEN EmptyFrame
       ELSE LET d2 == WithColumns(df, <<"estado">>)
                hasEstado == "estado" \in Range(df.cols)
                id(v) == IF v = <<>> THEN <<"n", "a", "n">> ELSE Strip(v)
                est(v) == IF ~hasEstado \/ Strip(v) = <<>> THEN <<"A">> ELSE Strip(v)
            IN [cols |-> d2.cols,
                rows |-> [i \in DOMAIN d2.rows |->
                           [c \in Range(d2.cols) |->
                              IF c = "id_paciente" THEN id(d2.rows[i][c])
                              ELSE IF c = "estado" THEN est(d2.rows[i][c])
                              ELSE d2.rows[i][c]]]]

\* the table can be shown and edited: it has rows and every displayed column
Editable(df) == ~FrameEmpty(df) /\ Range(columns) \subseteq Range(df.cols)

\* pacientes_df['estado'] = edited_df['estado'], e[i] being "keep", "A" or "X"
ApplyEdit(df, e) ==
  [cols |-> df.cols,
   rows |-> [i \in DOMAIN df.rows |->
              IF e[i] = "keep" THEN df.rows[i]
              ELSE [df.rows[i] EXCEPT !["estado"] = <<e[i]>>]]]

\* the rows the confirmed purge keeps
PurgeFilter(df) == FilterRows(df, "estado", <<"A">>, TRUE)

\* the ledger the confirmed purge writes locally
ConfirmedLedger(df, e) == ToCsv(PurgeFilter(ApplyEdit(df, e)), TRUE)

(***************************************************************************)
(* The viewer's load_data, after download_file has returned True for the   *)
(* local copy f: the data frame it returns.                                *)
(***************************************************************************)
\* pd.DataFrame()
NoFrame == [cols |-> <<>>, rows |-> <<>>]

\* the text has n characters: those of sep at the positions of sep, digits elsewhere
HasShape(s, n, sep) ==
  /\ Len(s) = n
  /\ \A i \in 1..n : IF i \in DOMAIN sep THEN s[i] = sep[i] ELSE s[i] \in Digits

StampSeps == [i \in {5, 8, 11, 14, 17} |-> <<"-", "-", " ", ":", ":">>[(i - 2) \div 3]]

\* '%Y-%m-%d %H:%M'
IsMinuteStamp(s) == HasShape(s, 16, [i \in {5, 8, 11, 14} |-> StampSeps[i]])

\* '%Y-%m-%d %H:%M:%S'
IsSecondStamp(s) == HasShape(s, 19, StampSeps)

\* pd.to_datetime of one cell, held as str() of the Timestamp (NaT: the empty text)
ToDatetime(s) ==
  IF IsSecondStamp(s) THEN s
  ELSE IF IsMinuteStamp(s) THEN s \o <<":", "0", "0">>
  ELSE <<>>

\* the rank of a character of a timestamp
CharRank(ch) == IndexOf(<<"0", "1", "2", "3", "4", "5", "6", "7", "8", "9">>, ch)

RECURSIVE StampLess(_, _)
\* a < b for two timestamps held as texts of the same shape
StampLess(a, b) ==
  IF a = <<>> \/ b = <<>> THEN a = <<>> /\ b # <<>>
  ELSE IF Head(a) # Head(b) THEN CharRank(Head(a)) < CharRank(Head(b))
  ELSE StampLess(Tail(a), Tail(b))

RECURSIVE SortDesc(_)
\* df.sort_values('timestamp', ascending=False) on the rows (rows of equal timestamp
\* keep their order)
SortDesc(rows) ==
  IF rows = <<>> THEN <<>>
  ELSE LET top == CHOOSE i \in DOMAIN rows :
                    /\ \A j \in DOMAIN rows : ~StampLess(rows[i]["timestamp"], rows[j]["timestamp"])
                    /\ \A j \in 1..(i - 1) : StampLess(rows[j]["timestamp"], rows[i]["timestamp"])
       IN <<rows[top]>> \o SortDesc(SelectIdx(rows, DOMAIN rows \ {top}, 1))

\* load_data from its read_csv on.  Every timestamp of the ledgers of the model has
\* the form '%Y-%m-%d %H:%M' or is empty; a column in which some cell has neither of
\* the two forms above is taken to make to_datetime raise.
LoadData(f) ==
  IF EmptyData(f) \/ ParserFails(f) THEN NoFrame
  ELSE LET df == ReadCsv(f, {}) IN
       IF ~(Range(columns) \subseteq Range(df.cols)) THEN NoFrame
       ELSE IF \E i \in DOMAIN df.rows :
                 df.rows[i]["timestamp"] # <<>> /\ ToDatetime(df.rows[i]["timestamp"]) = <<>>
            THEN NoFrame
       ELSE LET stamped == [i \in DOMAIN df.rows |->
                              [df.rows[i] EXCEPT !["timestamp"] = ToDatetime(@)]]
                dated == SelectIdx(stamped,
                                   {i \in DOMAIN stamped : stamped[i]["timestamp"] # <<>>}, 1)
            IN [cols |-> df.cols, rows |-> SortDesc(dated)]

(***************************************************************************)
(* The transfer's integrity check and what a put leaves at the remote path.*)
(***************************************************************************)
\* verify_file_integrity: the sizes agree
verify_file_integrity(localFile, remoteFile) ==
  remoteFile.exists /\ localFile.exists /\ FileSize(localFile) = FileSize(remoteFile)

\* an upload that takes any local path for an existing file
LocalExistsAlways(localFile) == TRUE

\* upload_remote_file: os.path.exists(local_path)
LocalExists(localFile) == localFile.exists

\* a put that stops short of the last data line
PutContentShort(localFile) ==
  [localFile EXCEPT !.rows = IF @ = <<>> THEN @ ELSE SubSeq(@, 1, Len(@) - 1)]

\* sftp.put: the bytes at the remote path once the transfer has completed
PutContent(localFile) == localFile

\* a get that stops short of the last data line
GetContentShort(remoteFile) ==
  [remoteFile EXCEPT !.rows = IF @ = <<>> THEN @ ELSE SubSeq(@, 1, Len(@) - 1)]

\* sftp.get: the bytes of the local copy once the transfer has completed
GetContent(remoteFile) == remoteFile

\* sftp.put opens the remote path for writing: the artifact is truncated first
PutOpened == ZeroBytes

\* a save_to_csv that reports success whatever the upload returned
SaveResultAlwaysTrue(uploaded) == TRUE

\* what save_to_csv returns for the result of upload_remote_file
SaveResult(uploaded) == uploaded

(***************************************************************************)
(* The sessions a transfer holds: get_connection returns one, the finally  *)
(* clause of the attempt closes it.                                        *)
(***************************************************************************)
\* get_connection returned a session: n open sessions become n + 1
SessOpen(n) == n + 1

\* an attempt whose finally clause closes nothing
SessCloseSkipped(n) == n

\* finally: ssh.close()
SessClose(n) == n - 1

(***************************************************************************)
(* State.                                                                  *)
(***************************************************************************)
VARIABLES
  remote,      \* the ledger artifact at the remote path
  localf,      \* localf[c]: the local ledger signos.csv of client c
  pc,          \* pc[c]: where client c is in its current operation
  op,          \* op[c]: the operation client c runs: "sync", "save" or "confirm"
  attempt,     \* attempt[c]: the loop index of the transfer in progress
  syncRes,     \* syncRes[c]: what the last sync_with_remote returned
  ret,         \* ret[c]: what the last finished operation returned (FALSE before)
  ops,         \* ops[c]: the operations client c has started
  faults,      \* the transport faults injected so far
  seen,        \* the keys of the records ever stored in the remote ledger
  purgedX,     \* the keys of the records purged while flagged Deactivated
  pending,     \* pending[c]: the keys client c saved locally whose upload failed
  intact,      \* intact[c]: no other client wrote the remote path since c's put
  lastWriter,  \* the client whose put completed last (0: none yet)
  flagged,     \* flagged[c]: the keys flagged Deactivated in the ledger c last rewrote
  sess,        \* sess[c]: the SSH sessions client c holds open
  dlRes,       \* dlRes[c]: what the last download_remote_file returned (FALSE before)
  upContent,   \* the file of the upload that last returned True, while the remote path
               \* has not been written since that upload's put (else NoFile)
  dlSource,    \* dlSource[c]: upContent as it was when c's sftp.get copied the remote file
  form,        \* form[c]: the record of the form client c submitted last
  cpc,         \* cpc[p]: where program p is in a call that starts with get_connection
  cop,         \* cop[p]: the operation of program p that called get_connection
  tries,       \* tries[p]: the ssh.connect calls of the current get_connection
  slept,       \* slept[p]: the time the current get_connection has spent in time.sleep
  errs,        \* errs[p]: the kinds of exception ssh.connect raised, in order
  conn,        \* conn[p]: what get_connection returned: "session", "None" ("none" before)
  csess,       \* csess[p]: the SSH sessions program p holds open
  cret,        \* cret[p]: what the operation returned, as text ("none" before)
  vlocal,      \* the viewer's local copy of the ledger
  vdata,       \* the data frame the viewer's last load_data returned
  calls,       \* the operations started by get_connection's callers below
  transferAttempt, \* transferAttempt[p]: the loop index of the transfer p is in
  connects,    \* connects[p]: the ssh.connect calls made since p's operation started
  ecgs,        \* the files of the remote ECG folder
  field,       \* a text field of a new record, as save_to_csv receives it
  cleaned,     \* <<the field as save_to_csv stores it>>, <<>> before the cleaning
  budget       \* the transport faults that may be injected in all

\* the state of the registration clients' handlers
clientVars == <<localf, pc, op, attempt, syncRes, ret, ops, faults, seen, purgedX,
                pending, intact, lastWriter, flagged, sess, dlRes, upContent, dlSource,
                form>>

\* the state of the calls that are followed through get_connection
connVars == <<cpc, cop, tries, slept, errs, conn, csess, cret, vlocal, vdata, calls, transferAttempt, connects, ecgs>>

\* the inputs of the operations that are followed on their own
inputVars == <<field, cleaned, budget>>

vars == <<remote, clientVars, connVars, inputVars>>

\* the programs: the registration client and the viewer
Programs == {"despachador8", "enfermera15"}

\* the state of the clients and of the store when the programs start
\* the remote ECG folder: the attachments of two patients
EcgFolder == {"ecg_5500000001_a.pdf", "ecg_5500000002_a.pdf"}

InitBase ==
  /\ remote \in InitLedgers
  /\ localf = [c \in Clients |-> NoFile]
  /\ pc = [c \in Clients |-> "idle"]
  /\ op = [c \in Clients |-> "none"]
  /\ attempt = [c \in Clients |-> 0]
  /\ syncRes = [c \in Clients |-> FALSE]
  /\ ret = [c \in Clients |-> FALSE]
  /\ ops = [c \in Clients |-> 0]
  /\ faults = 0
  /\ seen = Keys(remote)
  /\ purgedX = {}
  /\ pending = [c \in Clients |-> {}]
  /\ intact = [c \in Clients |-> FALSE]
  /\ lastWriter = 0
  /\ flagged = [c \in Clients |-> {}]
  /\ sess = [c \in Clients |-> 0]
  /\ dlRes = [c \in Clients |-> FALSE]
  /\ upContent = NoFile
  /\ dlSource = [c \in Clients |-> NoFile]
  /\ form = [c \in Clients |-> NoRecord]
  /\ cpc = [p \in Programs |-> "idle"]
  /\ cop = [p \in Programs |-> "none"]
  /\ tries = [p \in Programs |-> 0]
  /\ slept = [p \in Programs |-> 0]
  /\ errs = [p \in Programs |-> <<>>]
  /\ conn = [p \in Programs |-> "none"]
  /\ csess = [p \in Programs |-> 0]
  /\ cret = [p \in Programs |-> "none"]
  /\ vlocal = NoFile
  /\ vdata = NoFrame
  /\ transferAttempt = [p \in Programs |-> 0]
  /\ connects = [p \in Programs |-> 0]
  /\ ecgs = EcgFolder
  /\ calls = 0

Init ==
  /\ InitBase
  /\ field = <<>>
  /\ cleaned = <<>>
  /\ budget = MaxFaults

\* the key of the record client c submits in its current operation
NewKey(c) == CleanText(nuevo_registro(c, ops[c]).timestamp)

(***************************************************************************)
(* main starts an operation: every run of the script synchronises first.   *)
(* "sync" is a run that only shows the table, "save" a call of save_to_csv *)
(* (which synchronises itself), "confirm" a run in which the user edits    *)
(* the table.                                                              *)
(***************************************************************************)
Begin(c, o) ==
  /\ pc[c] = "idle"
  /\ ops[1] + ops[2] + calls < MaxOps
  /\ op' = [op EXCEPT ![c] = o]
  /\ ops' = [ops EXCEPT ![c] = @ + 1]
  /\ pc' = [pc EXCEPT ![c] = "dl"]
  /\ attempt' = [attempt EXCEPT ![c] = 0]
  /\ ret' = [ret EXCEPT ![c] = FALSE]
  /\ UNCHANGED <<remote, localf, syncRes, faults, seen, purgedX, pending, intact,
                 lastWriter, flagged>>
  /\ UNCHANGED <<sess, dlRes>>
  /\ UNCHANGED <<upContent, dlSource>>
  /\ form' = [form EXCEPT ![c] = IF o = "save" THEN nuevo_registro(c, ops'[c]) ELSE @]
  /\ UNCHANGED <<connVars, inputVars>>

StartSync(c) == Begin(c, "sync")
StartSave(c) == Begin(c, "save")
StartConfirm(c) == Begin(c, "confirm")

(***************************************************************************)
(* download_remote_file inside sync_with_remote.                           *)
(***************************************************************************)
\* download_remote_file returned dlok with f as the local ledger: the rest of the pass
FinishSync(c, f, dlok) ==
  /\ localf' = [localf EXCEPT ![c] = SyncAfter(f, dlok).file]
  /\ syncRes' = [syncRes EXCEPT ![c] = SyncAfter(f, dlok).res]
  /\ pc' = [pc EXCEPT ![c] = "synced"]
  /\ attempt' = [attempt EXCEPT ![c] = 0]
  /\ dlRes' = [dlRes EXCEPT ![c] = dlok]

\* a loop that gives up one attempt later
LastAttemptLate(a) == a = MAX_RETRIES

\* if attempt == SSHManager.MAX_RETRIES - 1: return False
LastAttempt(a) == a = MAX_RETRIES - 1

\* an attempt of the download failed with f as the local ledger: next attempt, or False
DlRetryOrFail(c, f) ==
  IF ~LastAttempt(attempt[c])
  THEN /\ attempt' = [attempt EXCEPT ![c] = @ + 1]
       /\ pc' = [pc EXCEPT ![c] = "dl"]
       /\ localf' = [localf EXCEPT ![c] = f]
       /\ UNCHANGED <<syncRes, dlRes>>
  ELSE FinishSync(c, f, FALSE)

\* get_connection gives no session: download_remote_file returns False
DlConnFail(c) ==
  /\ pc[c] = "dl"
  /\ faults < budget
  /\ faults' = faults + 1
  /\ FinishSync(c, localf[c], FALSE)
  /\ UNCHANGED <<remote, op, ret, ops, seen, purgedX, pending, intact, lastWriter, flagged>>
  /\ UNCHANGED sess
  /\ UNCHANGED <<upContent, dlSource>>
  /\ UNCHANGED form
  /\ UNCHANGED <<connVars, inputVars>>

\* sftp.stat finds no remote ledger: an empty ledger is written locally, True returned
DlNotFound(c) ==
  /\ pc[c] = "dl"
  /\ ~remote.exists
  /\ FinishSync(c, EmptyLedger, TRUE)
  /\ UNCHANGED <<remote, op, ret, ops, faults, seen, purgedX, pending, intact, lastWriter,
                 flagged>>
  /\ sess' = [sess EXCEPT ![c] = SessClose(SessOpen(@))]
  /\ UNCHANGED <<upContent, dlSource>>
  /\ UNCHANGED form
  /\ UNCHANGED <<connVars, inputVars>>

\* sftp.get copies the bytes now at the remote path over the local ledger
DlGet(c) ==
  /\ pc[c] = "dl"
  /\ remote.exists
  /\ localf' = [localf EXCEPT ![c] = GetContent(remote)]
  /\ pc' = [pc EXCEPT ![c] = "dlVerify"]
  /\ UNCHANGED <<remote, op, attempt, syncRes, ret, ops, faults, seen, purgedX, pending,
                 intact, lastWriter, flagged>>
  /\ sess' = [sess EXCEPT ![c] = SessOpen(@)]
  /\ UNCHANGED dlRes
  /\ dlSource' = [dlSource EXCEPT ![c] = upContent]
  /\ UNCHANGED upContent
  /\ UNCHANGED form
  /\ UNCHANGED <<connVars, inputVars>>

\* the attempt raises: before the local file is opened, or with it opened and truncated
DlFault(c) ==
  /\ pc[c] = "dl"
  /\ faults < budget
  /\ faults' = faults + 1
  /\ \E f \in {localf[c]} \cup (IF remote.exists THEN {ZeroBytes} ELSE {}) :
       DlRetryOrFail(c, f)
  /\ UNCHANGED <<remote, op, ret, ops, seen, purgedX, pending, intact, lastWriter, flagged>>
  /\ sess' = [sess EXCEPT ![c] = SessClose(SessOpen(@))]
  /\ UNCHANGED <<upContent, dlSource>>
  /\ UNCHANGED form
  /\ UNCHANGED <<connVars, inputVars>>

\* verify_file_integrity after the get
DlVerify(c) ==
  /\ pc[c] = "dlVerify"
  /\ IF verify_file_integrity(localf[c], remote)
     THEN FinishSync(c, localf[c], TRUE)
     ELSE DlRetryOrFail(c, localf[c])
  /\ UNCHANGED <<remote, op, ret, ops, faults, seen, purgedX, pending, intact, lastWriter,
                 flagged>>
  /\ sess' = [sess EXCEPT ![c] = SessClose(@)]
  /\ UNCHANGED <<upContent, dlSource>>
  /\ UNCHANGED form
  /\ UNCHANGED <<connVars, inputVars>>

\* the size query of verify_file_integrity raises: it returns False
DlVerifyFault(c) ==
  /\ pc[c] = "dlVerify"
  /\ faults < budget
  /\ faults' = faults + 1
  /\ DlRetryOrFail(c, localf[c])
  /\ UNCHANGED <<remote, op, ret, ops, seen, purgedX, pending, intact, lastWriter, flagged>>
  /\ sess' = [sess EXCEPT ![c] = SessClose(@)]
  /\ UNCHANGED <<upContent, dlSource>>
  /\ UNCHANGED form
  /\ UNCHANGED <<connVars, inputVars>>

(***************************************************************************)
(* After the synchronisation.                                              *)
(***************************************************************************)
\* main only shows the table
SyncDone(c) ==
  /\ pc[c] = "synced"
  /\ op[c] = "sync"
  /\ pc' = [pc EXCEPT ![c] = "idle"]
  /\ ret' = [ret EXCEPT ![c] = syncRes[c]]
  /\ UNCHANGED <<remote, localf, op, attempt, syncRes, ops, faults, seen, purgedX,
                 pending, intact, lastWriter, flagged>>
  /\ UNCHANGED <<sess, dlRes>>
  /\ UNCHANGED <<upContent, dlSource>>
  /\ UNCHANGED form
  /\ UNCHANGED <<connVars, inputVars>>

\* save_to_csv loads, purges, appends and writes the local ledger; a KeyError of the
\* load is caught by the handler's outer except, which returns False
SaveWrite(c) ==
  /\ pc[c] = "synced"
  /\ op[c] = "save"
  /\ IF LoadExisting(localf[c]).raised
     THEN /\ pc' = [pc EXCEPT ![c] = "idle"]
          /\ ret' = [ret EXCEPT ![c] = FALSE]
          /\ UNCHANGED <<localf, attempt, purgedX, flagged>>
     ELSE /\ localf' = [localf EXCEPT
                          ![c] = CombinedLedger(localf[c], form[c])]
          /\ flagged' = [flagged EXCEPT ![c] = KeysX(localf[c])]
          /\ purgedX' = purgedX \cup flagged'[c]
          /\ pc' = [pc EXCEPT ![c] = "up"]
          /\ attempt' = [attempt EXCEPT ![c] = 0]
          /\ UNCHANGED ret
  /\ UNCHANGED <<remote, op, syncRes, ops, faults, seen, pending, intact, lastWriter>>
  /\ UNCHANGED <<sess, dlRes>>
  /\ UNCHANGED <<upContent, dlSource>>
  /\ UNCHANGED form
  /\ UNCHANGED <<connVars, inputVars>>

\* the edits the user can make in the table: at most MaxEdits rows change
Edits(df) ==
  {e \in [DOMAIN df.rows -> {"keep", "A", "X"}] :
     Cardinality({i \in DOMAIN df.rows : e[i] # "keep"}) <= MaxEdits}

\* main: the user edits estado, rows are marked 'X' and the baja is confirmed
ConfirmWrite(c) ==
  /\ pc[c] = "synced"
  /\ op[c] = "confirm"
  /\ LET df == MainLoad(localf[c]) IN
       /\ Editable(df)
       /\ \E e \in Edits(df) :
            /\ ApplyEdit(df, e) # df
            /\ ~FrameEmpty(FilterRows(ApplyEdit(df, e), "estado", <<"X">>, TRUE))
            /\ localf' = [localf EXCEPT ![c] = ConfirmedLedger(df, e)]
            /\ flagged' = [flagged EXCEPT
                 ![c] = {r["timestamp"] :
                           r \in Range(FilterRows(ApplyEdit(df, e), "estado", <<"X">>,
                                                  TRUE).rows)}]
            /\ purgedX' = purgedX \cup flagged'[c]
  /\ pc' = [pc EXCEPT ![c] = "up"]
  /\ attempt' = [attempt EXCEPT ![c] = 0]
  /\ UNCHANGED <<remote, op, syncRes, ret, ops, faults, seen, pending, intact, lastWriter>>
  /\ UNCHANGED <<sess, dlRes>>
  /\ UNCHANGED <<upContent, dlSource>>
  /\ UNCHANGED form
  /\ UNCHANGED <<connVars, inputVars>>

\* main: no edit, no row marked, or the operation cancelled: nothing is written
ConfirmSkip(c) ==
  /\ pc[c] = "synced"
  /\ op[c] = "confirm"
  /\ pc' = [pc EXCEPT ![c] = "idle"]
  /\ UNCHANGED <<remote, localf, op, attempt, syncRes, ret, ops, faults, seen, purgedX,
                 pending, intact, lastWriter, flagged>>
  /\ UNCHANGED <<sess, dlRes>>
  /\ UNCHANGED <<upContent, dlSource>>
  /\ UNCHANGED form
  /\ UNCHANGED <<connVars, inputVars>>

(***************************************************************************)
(* upload_remote_file, called by save_to_csv and by the confirmed purge.   *)
(***************************************************************************)
\* upload_remote_file returns uploaded: the caller's result
Finish(c, uploaded) ==
  /\ pc' = [pc EXCEPT ![c] = "idle"]
  /\ ret' = [ret EXCEPT ![c] = IF op[c] = "save" THEN SaveResult(uploaded) ELSE uploaded]
  /\ pending' = [pending EXCEPT
                   ![c] = IF op[c] = "save" /\ ~uploaded THEN @ \cup {NewKey(c)} ELSE @]
  /\ attempt' = [attempt EXCEPT ![c] = 0]

\* an attempt of the upload failed: next attempt, or False
UpRetryOrFail(c) ==
  IF ~LastAttempt(attempt[c])
  THEN /\ attempt' = [attempt EXCEPT ![c] = @ + 1]
       /\ pc' = [pc EXCEPT ![c] = "up"]
       /\ UNCHANGED <<ret, pending>>
  ELSE Finish(c, FALSE)

\* the remote path was written by c: no other client's put is intact any more
Touched(c, done) == [d \in Clients |-> d = c /\ done]

\* the local path does not exist: upload_remote_file returns False at once
UpLocalMissing(c) ==
  /\ pc[c] = "up"
  /\ ~LocalExists(localf[c])
  /\ Finish(c, FALSE)
  /\ UNCHANGED <<remote, localf, op, syncRes, ops, faults, seen, purgedX, intact, lastWriter,
                 flagged, sess, dlRes>>
  /\ UNCHANGED <<upContent, dlSource>>
  /\ UNCHANGED form
  /\ UNCHANGED <<connVars, inputVars>>

\* upload_remote_file called on the local ledger as it stands
BeginUpload(c) ==
  /\ pc[c] = "idle"
  /\ ops[1] + ops[2] + calls < MaxOps
  /\ op' = [op EXCEPT ![c] = "upload"]
  /\ ops' = [ops EXCEPT ![c] = @ + 1]
  /\ pc' = [pc EXCEPT ![c] = "up"]
  /\ attempt' = [attempt EXCEPT ![c] = 0]
  /\ ret' = [ret EXCEPT ![c] = FALSE]
  /\ UNCHANGED <<remote, localf, syncRes, faults, seen, purgedX, pending, intact,
                 lastWriter, flagged, sess, dlRes>>
  /\ UNCHANGED <<upContent, dlSource>>
  /\ UNCHANGED form
  /\ UNCHANGED <<connVars, inputVars>>

\* get_connection gives no session: upload_remote_file returns False
UpConnFail(c) ==
  /\ pc[c] = "up"
  /\ LocalExists(localf[c])
  /\ faults < budget
  /\ faults' = faults + 1
  /\ Finish(c, FALSE)
  /\ UNCHANGED <<remote, localf, op, syncRes, ops, seen, purgedX, intact, lastWriter, flagged>>
  /\ UNCHANGED <<sess, dlRes>>
  /\ UNCHANGED <<upContent, dlSource>>
  /\ UNCHANGED form
  /\ UNCHANGED <<connVars, inputVars>>

\* sftp.put opens the remote path for writing
UpOpen(c) ==
  /\ pc[c] = "up"
  /\ LocalExists(localf[c])
  /\ remote' = PutOpened
  /\ intact' = Touched(c, FALSE)
  /\ pc' = [pc EXCEPT ![c] = "upWrite"]
  /\ UNCHANGED <<localf, op, attempt, syncRes, ret, ops, faults, seen, purgedX, pending,
                 lastWriter, flagged>>
  /\ sess' = [sess EXCEPT ![c] = SessOpen(@)]
  /\ UNCHANGED dlRes
  /\ upContent' = NoFile
  /\ UNCHANGED dlSource
  /\ UNCHANGED form
  /\ UNCHANGED <<connVars, inputVars>>

\* the attempt raises: before the remote path is opened, or with it opened and truncated
UpFault(c) ==
  /\ pc[c] \in {"up", "upWrite"}
  /\ LocalExists(localf[c])
  /\ faults < budget
  /\ faults' = faults + 1
  /\ UpRetryOrFail(c)
  /\ UNCHANGED <<remote, localf, op, syncRes, ops, seen, purgedX, intact, lastWriter, flagged>>
  /\ sess' = [sess EXCEPT ![c] = IF pc[c] = "up" THEN SessClose(SessOpen(@)) ELSE SessClose(@)]
  /\ UNCHANGED dlRes
  /\ UNCHANGED <<upContent, dlSource>>
  /\ UNCHANGED form
  /\ UNCHANGED <<connVars, inputVars>>

\* sftp.put has written the local ledger to the remote path
UpWrite(c) ==
  /\ pc[c] = "upWrite"
  /\ remote' = PutContent(localf[c])
  /\ seen' = seen \cup Keys(remote')
  /\ intact' = Touched(c, TRUE)
  /\ lastWriter' = c
  /\ pc' = [pc EXCEPT ![c] = "upVerify"]
  /\ UNCHANGED <<localf, op, attempt, syncRes, ret, ops, faults, purgedX, pending,
                 flagged>>
  /\ UNCHANGED <<sess, dlRes>>
  /\ upContent' = NoFile
  /\ UNCHANGED dlSource
  /\ UNCHANGED form
  /\ UNCHANGED <<connVars, inputVars>>

\* verify_file_integrity after the put
UpVerify(c) ==
  /\ pc[c] = "upVerify"
  /\ IF verify_file_integrity(localf[c], remote) THEN Finish(c, TRUE) ELSE UpRetryOrFail(c)
  /\ intact' = [intact EXCEPT ![c] = FALSE]
  /\ UNCHANGED <<remote, localf, op, syncRes, ops, faults, seen, purgedX, lastWriter, flagged>>
  /\ sess' = [sess EXCEPT ![c] = SessClose(@)]
  /\ UNCHANGED dlRes
  /\ upContent' = IF verify_file_integrity(localf[c], remote) /\ intact[c]
                  THEN localf[c] ELSE upContent
  /\ UNCHANGED dlSource
  /\ UNCHANGED form
  /\ UNCHANGED <<connVars, inputVars>>

\* the size query of verify_file_integrity raises: it returns False
UpVerifyFault(c) ==
  /\ pc[c] = "upVerify"
  /\ faults < budget
  /\ faults' = faults + 1
  /\ UpRetryOrFail(c)
  /\ intact' = [intact EXCEPT ![c] = FALSE]
  /\ UNCHANGED <<remote, localf, op, syncRes, ops, seen, purgedX, lastWriter, flagged>>
  /\ sess' = [sess EXCEPT ![c] = SessClose(@)]
  /\ UNCHANGED dlRes
  /\ UNCHANGED <<upContent, dlSource>>
  /\ UNCHANGED form
  /\ UNCHANGED <<connVars, inputVars>>

\* the steps of save_to_csv when no transport fault occurs
SaveStep(c) ==
  \/ StartSave(c)
  \/ DlNotFound(c) \/ DlGet(c) \/ DlVerify(c)
  \/ SaveWrite(c)
  \/ UpOpen(c) \/ UpWrite(c) \/ UpVerify(c)

\* the transport faults of save_to_csv
SaveFault(c) ==
  \/ DlConnFail(c) \/ DlFault(c) \/ DlVerifyFault(c)
  \/ UpConnFail(c) \/ UpFault(c) \/ UpVerifyFault(c)

Next ==
  \E c \in Clients :
    \/ SaveStep(c) \/ SaveFault(c)
    \/ StartSync(c) \/ SyncDone(c)
    \/ StartConfirm(c) \/ ConfirmWrite(c) \/ ConfirmSkip(c)

\* every client, every operation, transport faults
Spec == Init /\ [][Next]_vars

\* clients that only append (save_to_csv), without transport faults
NextAppend == \E c \in Clients : SaveStep(c)
SpecAppend == Init /\ [][NextAppend]_vars

\* client c calls save_to_csv while no other client is inside an operation
SaveAlone(c) ==
  /\ \A d \in Clients \ {c} : pc[d] = "idle"
  /\ StartSave(c)

\* clients that only append, one call of save_to_csv after the other, every transfer
\* succeeding
NextSerial ==
  \E c \in Clients :
    \/ SaveAlone(c)
    \/ DlNotFound(c) \/ DlGet(c) \/ DlVerify(c)
    \/ SaveWrite(c)
    \/ UpOpen(c) \/ UpWrite(c) \/ UpVerify(c)
SpecSerial == Init /\ [][NextSerial]_vars

\* clients that only append (save_to_csv), with transport faults
NextAppendFaulty == \E c \in Clients : SaveStep(c) \/ SaveFault(c)
SpecAppendFaulty == Init /\ [][NextAppendFaulty]_vars

\* the transfers called one at a time: synchronisation passes and uploads of the
\* local ledger as it stands (which may not exist), with the faults of the upload
NextTransfer ==
  \E c \in Clients :
    \/ StartSync(c) \/ DlNotFound(c) \/ DlGet(c) \/ DlVerify(c) \/ SyncDone(c)
    \/ BeginUpload(c) \/ UpLocalMissing(c)
    \/ UpOpen(c) \/ UpWrite(c) \/ UpVerify(c)
    \/ UpConnFail(c) \/ UpFault(c) \/ UpVerifyFault(c)
SpecTransfer == Init /\ [][NextTransfer]_vars

(***************************************************************************)
(* get_connection step by step, in both programs, and the viewer's         *)
(* operations that call it.  In the handlers above get_connection is one   *)
(* step, its result being all that its caller uses.                        *)
(***************************************************************************)
\* the operations that are followed through get_connection: of the registration
\* client the call of get_connection by a transfer, of the viewer its three operations
ProgramOps(p) ==
  IF p = "despachador8" THEN {"get_connection"}
  ELSE {"download_file", "test_connection", "get_all_ecgs"}

\* the transfers of the registration client, each attempt of which calls
\* get_connection
TransferOps == {"download_remote_file", "upload_remote_file"}

\* the kinds of exception ssh.connect raises
ConnectErrors == {"transport", "auth"}

\* the except clause that handles the exception goes on to the next attempt:
\* despachador8 handles every Exception alike, enfermera15 returns None on an
\* AuthenticationException
Retries(p, kind) == p = "despachador8" \/ kind # "auth"

\* a loop that also waits after its last attempt
RetryAllowedAlways(a) == a < MAX_RETRIES

\* if attempt < MAX_RETRIES - 1: time.sleep(RETRY_DELAY)
RetryAllowed(a) == a < MAX_RETRIES - 1

\* what operation o returns when get_connection gave it no session
NoSessionResult(o) ==
  IF o \in {"download_file", "test_connection"} \cup TransferOps THEN "False"
  ELSE IF o = "load_data" THEN "empty"
  ELSE "None"

\* program p starts operation o, which calls get_connection
ConnCall(p, o) ==
  /\ cpc[p] = "idle"
  /\ ops[1] + ops[2] + calls < MaxOps
  /\ calls' = calls + 1
  /\ cop' = [cop EXCEPT ![p] = o]
  /\ cpc' = [cpc EXCEPT ![p] = "connect"]
  /\ tries' = [tries EXCEPT ![p] = 0]
  /\ slept' = [slept EXCEPT ![p] = 0]
  /\ errs' = [errs EXCEPT ![p] = <<>>]
  /\ conn' = [conn EXCEPT ![p] = "none"]
  /\ cret' = [cret EXCEPT ![p] = "none"]
  /\ vdata' = IF o = "load_data" THEN NoFrame ELSE vdata
  /\ transferAttempt' = [transferAttempt EXCEPT ![p] = 0]
  /\ connects' = [connects EXCEPT ![p] = 0]
  /\ UNCHANGED <<remote, clientVars, inputVars, csess, vlocal, ecgs>>

\* get_connection returns None: the operation returns at once
ReturnNone(p) ==
  /\ conn' = [conn EXCEPT ![p] = "None"]
  /\ cret' = [cret EXCEPT ![p] = NoSessionResult(cop[p])]
  /\ cpc' = [cpc EXCEPT ![p] = "idle"]

\* ssh.connect succeeds: get_connection returns the session
ConnectOk(p) ==
  /\ cpc[p] = "connect"
  /\ tries[p] < MAX_RETRIES
  /\ tries' = [tries EXCEPT ![p] = @ + 1]
  /\ conn' = [conn EXCEPT ![p] = "session"]
  /\ csess' = [csess EXCEPT ![p] = SessOpen(@)]
  /\ cpc' = [cpc EXCEPT ![p] = "body"]
  /\ connects' = [connects EXCEPT ![p] = @ + 1]
  /\ UNCHANGED <<remote, clientVars, inputVars, cop, slept, errs, cret, vlocal, vdata, calls,
                 transferAttempt, ecgs>>

\* ssh.connect raises: the next attempt after a wait, or None
ConnectFail(p, kind) ==
  /\ cpc[p] = "connect"
  /\ tries[p] < MAX_RETRIES
  /\ tries' = [tries EXCEPT ![p] = @ + 1]
  /\ errs' = [errs EXCEPT ![p] = Append(@, kind)]
  /\ IF Retries(p, kind) /\ RetryAllowed(tries[p])
     THEN /\ cpc' = [cpc EXCEPT ![p] = "wait"]
          /\ UNCHANGED <<conn, cret>>
     ELSE ReturnNone(p)
  /\ connects' = [connects EXCEPT ![p] = @ + 1]
  /\ UNCHANGED <<remote, clientVars, inputVars, cop, slept, csess, vlocal, vdata, calls,
                 transferAttempt, ecgs>>

\* time.sleep(RETRY_DELAY), then the next iteration of the loop if there is one
Sleep(p) ==
  /\ cpc[p] = "wait"
  /\ slept' = [slept EXCEPT ![p] = @ + RETRY_DELAY]
  /\ IF tries[p] < MAX_RETRIES
     THEN /\ cpc' = [cpc EXCEPT ![p] = "connect"]
          /\ UNCHANGED <<conn, cret>>
     ELSE ReturnNone(p)
  /\ UNCHANGED <<remote, clientVars, inputVars, cop, tries, errs, csess, vlocal, vdata, calls, transferAttempt, connects, ecgs>>

\* a remote path after sftp.stat, sftp.get or sftp.listdir, with the file gone
ReadRemoves(r) == NoFile

\* a remote path after sftp.stat, sftp.get or sftp.listdir of it: as it was
ReadLeaves(r) == r

\* the remote ECG folder after sftp.listdir of it and sftp.get of files in it
ListLeaves(d) == d

\* the operation returns r with its session open: finally: ssh.close()
Returns(p, r) ==
  /\ cret' = [cret EXCEPT ![p] = r]
  /\ csess' = [csess EXCEPT ![p] = SessClose(@)]
  /\ cpc' = [cpc EXCEPT ![p] = "idle"]
  /\ UNCHANGED <<clientVars, inputVars, cop, tries, slept, errs, conn, calls, transferAttempt,
                 connects>>

\* despachador8: the transfer that called get_connection ends its attempt
CallerCloses(p) ==
  /\ cpc[p] = "body" /\ cop[p] = "get_connection"
  /\ Returns(p, "session")
  /\ UNCHANGED <<remote, ecgs, vlocal, vdata>>

\* download_file: sftp.stat finds no file, False
VDownloadNotFound(p) ==
  /\ cpc[p] = "body" /\ cop[p] = "download_file"
  /\ ~remote.exists
  /\ remote' = ReadLeaves(remote)
  /\ Returns(p, "False")
  /\ UNCHANGED <<ecgs, vlocal, vdata>>

\* download_file: sftp.get copies the remote file, True (no size check)
VDownloadGet(p) ==
  /\ cpc[p] = "body" /\ cop[p] = "download_file"
  /\ remote.exists
  /\ vlocal' = GetContent(remote)
  /\ remote' = ReadLeaves(remote)
  /\ Returns(p, "True")
  /\ UNCHANGED <<ecgs, vdata>>

\* download_file: an exception (before the local file is opened, or with it opened
\* and truncated), False
VDownloadFault(p) ==
  /\ cpc[p] = "body" /\ cop[p] = "download_file"
  /\ \E f \in {vlocal} \cup (IF remote.exists THEN {ZeroBytes} ELSE {}) : vlocal' = f
  /\ remote' = ReadLeaves(remote)
  /\ Returns(p, "False")
  /\ UNCHANGED <<ecgs, vdata>>

\* test_connection: the listing succeeds (True), fails (False), or open_sftp raises
\* and the exception leaves test_connection through its finally clause
VTestConnection(p) ==
  /\ cpc[p] = "body" /\ cop[p] = "test_connection"
  /\ \E r \in {"True", "False", "raised"} : Returns(p, r)
  /\ remote' = ReadLeaves(remote)
  /\ UNCHANGED <<ecgs, vlocal, vdata>>

\* get_all_ecgs: the list of downloaded ECGs, or None (no folder, no file of the
\* patient, no file downloaded, an exception)
VGetAllEcgs(p) ==
  /\ cpc[p] = "body" /\ cop[p] = "get_all_ecgs"
  /\ \E r \in {"list", "None"} : Returns(p, r)
  /\ ecgs' = ListLeaves(ecgs)
  /\ UNCHANGED <<remote, vlocal, vdata>>

NextConn ==
  \E p \in Programs :
    \/ \E o \in ProgramOps(p) : ConnCall(p, o)
    \/ ConnectOk(p)
    \/ \E kind \in ConnectErrors : ConnectFail(p, kind)
    \/ Sleep(p)
    \/ CallerCloses(p)
    \/ VDownloadNotFound(p) \/ VDownloadGet(p) \/ VDownloadFault(p)
    \/ VTestConnection(p) \/ VGetAllEcgs(p)

\* the calls of get_connection and the viewer's operations, the remote store at rest
SpecConn == Init /\ [][NextConn]_vars

(***************************************************************************)
(* A transfer of the registration client followed through its calls of     *)
(* get_connection: every iteration of the transfer's loop calls            *)
(* get_connection, which runs its own loop of ssh.connect calls.           *)
(***************************************************************************)
\* the transfer completes in this attempt (or download_remote_file finds no remote
\* file): True, the session closed by the finally clause
TransferDone(p) ==
  /\ cpc[p] = "body" /\ cop[p] \in TransferOps
  /\ Returns(p, "True")
  /\ UNCHANGED <<remote, ecgs, vlocal, vdata>>

\* the attempt fails (an exception of the SFTP calls, or the sizes differ): the
\* session is closed, and the loop goes on to its next iteration, which calls
\* get_connection again, or the transfer returns False
TransferFault(p) ==
  /\ cpc[p] = "body" /\ cop[p] \in TransferOps
  /\ csess' = [csess EXCEPT ![p] = SessClose(@)]
  /\ IF ~LastAttempt(transferAttempt[p])
     THEN /\ transferAttempt' = [transferAttempt EXCEPT ![p] = @ + 1]
          /\ cpc' = [cpc EXCEPT ![p] = "connect"]
          /\ tries' = [tries EXCEPT ![p] = 0]
          /\ slept' = [slept EXCEPT ![p] = 0]
          /\ errs' = [errs EXCEPT ![p] = <<>>]
          /\ conn' = [conn EXCEPT ![p] = "none"]
          /\ UNCHANGED cret
     ELSE /\ cret' = [cret EXCEPT ![p] = "False"]
          /\ cpc' = [cpc EXCEPT ![p] = "idle"]
          /\ UNCHANGED <<transferAttempt, tries, slept, errs, conn>>
  /\ UNCHANGED <<remote, clientVars, inputVars, cop, vlocal, vdata, calls, connects, ecgs>>

NextAttempts ==
  \/ \E o \in TransferOps : ConnCall("despachador8", o)
  \/ ConnectOk("despachador8")
  \/ \E kind \in ConnectErrors : ConnectFail("despachador8", kind)
  \/ Sleep("despachador8")
  \/ TransferDone("despachador8")
  \/ TransferFault("despachador8")

SpecAttempts == Init /\ [][NextAttempts]_vars

(***************************************************************************)
(* The viewer's load_data: download_file into the temporary copy, then the *)
(* parse of that copy, which is removed at the end.  cret is "frame" when  *)
(* the data frame returned has rows and "empty" otherwise.                 *)
(***************************************************************************)
\* load_data returns pd.DataFrame() because download_file returned False
LoadFails(p) ==
  /\ cret' = [cret EXCEPT ![p] = "empty"]
  /\ vdata' = NoFrame
  /\ csess' = [csess EXCEPT ![p] = SessClose(@)]
  /\ cpc' = [cpc EXCEPT ![p] = "idle"]
  /\ remote' = ReadLeaves(remote)
  /\ UNCHANGED <<clientVars, inputVars, cop, tries, slept, errs, conn, calls, transferAttempt,
                 connects, ecgs>>

\* download_file finds no remote ledger
VLoadNotFound(p) ==
  /\ cpc[p] = "body" /\ cop[p] = "load_data"
  /\ ~remote.exists
  /\ LoadFails(p)
  /\ UNCHANGED vlocal

\* download_file raises: before the temporary copy is opened, or with it truncated
VLoadFault(p) ==
  /\ cpc[p] = "body" /\ cop[p] = "load_data"
  /\ \E f \in {vlocal} \cup (IF remote.exists THEN {ZeroBytes} ELSE {}) : vlocal' = f
  /\ LoadFails(p)

\* download_file copies the remote ledger and returns True
VLoadGet(p) ==
  /\ cpc[p] = "body" /\ cop[p] = "load_data"
  /\ remote.exists
  /\ vlocal' = GetContent(remote)
  /\ csess' = [csess EXCEPT ![p] = SessClose(@)]
  /\ cpc' = [cpc EXCEPT ![p] = "parse"]
  /\ remote' = ReadLeaves(remote)
  /\ UNCHANGED <<clientVars, inputVars, cop, tries, slept, errs, conn, cret, vdata, calls,
                 transferAttempt, connects, ecgs>>

\* the temporary copy is read, checked, dated and sorted, then removed
VLoadParse(p) ==
  /\ cpc[p] = "parse"
  /\ vdata' = LoadData(vlocal)
  /\ cret' = [cret EXCEPT ![p] = IF FrameEmpty(vdata') THEN "empty" ELSE "frame"]
  /\ vlocal' = NoFile
  /\ cpc' = [cpc EXCEPT ![p] = "idle"]
  /\ UNCHANGED <<remote, clientVars, inputVars, cop, tries, slept, errs, conn, csess, calls, transferAttempt, connects, ecgs>>

\* the steps of load_data in the viewer
NextLoadData ==
  \/ ConnCall("enfermera15", "load_data")
  \/ ConnectOk("enfermera15")
  \/ \E kind \in ConnectErrors : ConnectFail("enfermera15", kind)
  \/ Sleep("enfermera15")
  \/ VLoadNotFound("enfermera15") \/ VLoadFault("enfermera15")
  \/ VLoadGet("enfermera15") \/ VLoadParse("enfermera15")

\* every operation of the viewer, beside clients that append
NextViewer ==
  \/ NextAppend
  \/ \E o \in ProgramOps("enfermera15") \cup {"load_data"} : ConnCall("enfermera15", o)
  \/ ConnectOk("enfermera15")
  \/ \E kind \in ConnectErrors : ConnectFail("enfermera15", kind)
  \/ Sleep("enfermera15")
  \/ VDownloadNotFound("enfermera15") \/ VDownloadGet("enfermera15")
  \/ VDownloadFault("enfermera15")
  \/ VTestConnection("enfermera15") \/ VGetAllEcgs("enfermera15")
  \/ VLoadNotFound("enfermera15") \/ VLoadFault("enfermera15")
  \/ VLoadGet("enfermera15") \/ VLoadParse("enfermera15")
SpecViewer == Init /\ [][NextViewer]_vars

\* clients that append without transport faults, and the viewer loading the ledger
NextRead == NextAppend \/ NextLoadData
SpecRead == Init /\ [][NextRead]_vars

(***************************************************************************)
(* The cleaning of a text field of the new record in save_to_csv, on its   *)
(* own: the field is any text of at most MaxLen characters.                *)
(***************************************************************************)
TextChars == {"a", " ", CR, LF}

\* the texts of at most n characters
Texts(n) == UNION {[1..k -> TextChars] : k \in 0..n}

InitClean ==
  /\ InitBase
  /\ field \in Texts(MaxLen)
  /\ cleaned = <<>>
  /\ budget = MaxFaults

\* df_new[col] = df_new[col].astype(str).str.replace(...).str.strip()
Clean ==
  /\ cleaned = <<>>
  /\ cleaned' = <<CleanText(field)>>
  /\ UNCHANGED <<remote, clientVars, connVars, field, budget>>

NextClean == Clean
SpecClean == InitClean /\ [][NextClean]_vars

(***************************************************************************)
(* main: the form of a new record is submitted, validated, and passed to   *)
(* save_to_csv when it is valid.                                           *)
(***************************************************************************)
\* what the user may type into the form at the n-th operation of client c: the valid
\* record, and records with a field that is short, not numeric, empty or blank
FormInputs(c, n) ==
  LET base == nuevo_registro(c, n) IN
    { base,
      [base EXCEPT !.id_paciente = SubSeq(@, 1, 9)],
      [base EXCEPT !.id_paciente = SubSeq(@, 1, 9) \o <<"a">>],
      [base EXCEPT !.id_paciente = <<>>],
      [base EXCEPT !.nombre_paciente = <<>>],
      [base EXCEPT !.nombre_paciente = <<" ">>],
      [base EXCEPT !.oximetria = <<>>] }

\* the validations of the form: neither error message is shown
Valid(d) ==
  /\ IsDigits(d.id_paciente) /\ Len(d.id_paciente) = 10
  /\ \A col \in {"nombre_paciente", "presion_arterial", "temperatura", "oximetria"} :
       d[col] # <<>>

\* the form is submitted with the fields d: an error message, or save_to_csv is called
Submit(c, d) ==
  /\ pc[c] = "idle"
  /\ ops[1] + ops[2] + calls < MaxOps
  /\ ops' = [ops EXCEPT ![c] = @ + 1]
  /\ form' = [form EXCEPT ![c] = d]
  /\ ret' = [ret EXCEPT ![c] = FALSE]
  /\ IF Valid(d)
     THEN /\ op' = [op EXCEPT ![c] = "save"]
          /\ pc' = [pc EXCEPT ![c] = "dl"]
          /\ attempt' = [attempt EXCEPT ![c] = 0]
     ELSE /\ op' = [op EXCEPT ![c] = "rejected"]
          /\ UNCHANGED <<pc, attempt>>
  /\ UNCHANGED <<remote, localf, syncRes, faults, seen, purgedX, pending, intact,
                 lastWriter, flagged, sess, dlRes, upContent, dlSource>>
  /\ UNCHANGED <<connVars, inputVars>>

\* submissions of the form and the steps of the save_to_csv they call
NextForm ==
  \E c \in Clients :
    \/ \E d \in FormInputs(c, ops[c] + 1) : Submit(c, d)
    \/ DlNotFound(c) \/ DlGet(c) \/ DlVerify(c)
    \/ SaveWrite(c)
    \/ UpOpen(c) \/ UpWrite(c) \/ UpVerify(c)
SpecForm == Init /\ [][NextForm]_vars

(***************************************************************************)
(* One client on its own, its runs of main and its calls of save_to_csv    *)
(* meeting transport faults at every attempt of a transfer: more faults    *)
(* may be injected than a transfer has attempts.                           *)
(***************************************************************************)
InitRetry ==
  /\ InitBase
  /\ field = <<>>
  /\ cleaned = <<>>
  /\ budget = MaxFaults + MAX_RETRIES

NextRetry == SaveStep(1) \/ SaveFault(1) \/ StartSync(1) \/ SyncDone(1)

\* the positions of a client inside a run of main or a call of save_to_csv
Positions == {"idle", "dl", "dlVerify", "synced", "up", "upWrite", "upVerify"}

\* a function that has been called is at another position, or at another attempt,
\* after its next step
Running(c) ==
  /\ pc[c] # "idle"
  /\ \E q \in Positions, a \in 0..MAX_RETRIES :
       /\ <<q, a>> # <<pc[c], attempt[c]>>
       /\ pc' = [pc EXCEPT ![c] = q]
       /\ attempt' = [attempt EXCEPT ![c] = a]

\* a function that has been called takes its next step: no call blocks for ever
\* (every connect has a timeout, every wait between attempts is a time.sleep of
\* RETRY_DELAY)
SpecRetry == InitRetry /\ [][NextRetry]_vars /\ WF_<<pc, attempt>>(Running(1))

\* uploads (by save_to_csv) and downloads (by synchronisation passes and by the
\* viewer's download_file) of the ledger, with the faults of the transfers
NextRoundTrip ==
  \/ \E c \in Clients :
       \/ SaveStep(c) \/ StartSync(c) \/ SyncDone(c)
       \/ DlFault(c) \/ DlVerifyFault(c) \/ UpFault(c) \/ UpVerifyFault(c)
  \/ ConnCall("enfermera15", "download_file")
  \/ ConnectOk("enfermera15")
  \/ VDownloadNotFound("enfermera15") \/ VDownloadGet("enfermera15")
  \/ VDownloadFault("enfermera15")
SpecRoundTrip == Init /\ [][NextRoundTrip]_vars

\* the transfers with every transport fault, next to the calls above
NextSessions ==
  \/ NextTransfer
  \/ \E c \in Clients : DlConnFail(c) \/ DlFault(c) \/ DlVerifyFault(c)
  \/ NextConn
SpecSessions == Init /\ [][NextSessions]_vars

(***************************************************************************)
(* The claims.                                                             *)
(***************************************************************************)
AllIdle == \A c \in Clients : pc[c] = "idle"

\* client c takes the step that ends its synchronisation pass
SyncEnds(c) == pc[c] \in {"dl", "dlVerify"} /\ pc'[c] = "synced"

\* client c takes the step in which it writes its local ledger before the upload
LocalWrite(c) == pc[c] = "synced" /\ pc'[c] = "up"

\* client c takes the step in which its save_to_csv returns
SaveReturns(c) == op[c] = "save" /\ pc[c] # "idle" /\ pc'[c] = "idle"

\* the line of artifact f at position i, read by the canonical columns without parsing
RawRow(f, i) ==
  [k \in DOMAIN columns |->
     IF ColIdx(f, columns[k]) = 0 THEN <<>> ELSE Field(f.rows[i], ColIdx(f, columns[k]))]

\* the lines of artifact f whose estado is not 'X', as they stand in the artifact
RawLiveRows(f) ==
  LET live == {i \in DOMAIN LinesOf(f) : ~IsX(RawRow(f, i)[IndexOf(columns, "estado")])}
  IN SelectIdx([i \in DOMAIN LinesOf(f) |-> RawRow(f, i)], live, 1)

\* C1: a record present in the remote ledger is never absent from it later, unless it
\* was flagged Deactivated ('X') and purged (judged whenever no operation is running).
C1_RecordsNeverLost ==
  AllIdle => \A k \in seen : k \in Keys(remote) \/ k \in purgedX

\* C2: after save_to_csv left a record in the local ledger only (its upload failed),
\* a synchronisation pass that reaches the remote store and succeeds does not discard
\* that record from the local ledger.
C2_LocalAheadKept ==
  \A c \in Clients :
    (pc[c] = "synced" /\ syncRes[c]) => pending[c] \subseteq Keys(localf[c])

\* C3 as claimed: save_to_csv returns True only after a put that passed the size
\* check, and the remote ledger then holds the new record; a failed upload or a
\* raising step returns False.
C3_CommittedMeansStored ==
  [][\A c \in Clients :
       SaveReturns(c) =>
         /\ ret'[c] \in {TRUE, FALSE}
         /\ ret'[c] = TRUE <=>
              (pc[c] = "upVerify" /\ faults' = faults
                 /\ verify_file_integrity(localf[c], remote))
         /\ ret'[c] = TRUE => NewKey(c) \in Keys(remote')]_vars

\* C3 as amended: the same, except that the new record reached the remote ledger when
\* the put completed, and is still in it at the return provided no other client has
\* written the remote path since this client's put.
C3_CommittedMeansStoredIfIntact ==
  [][\A c \in Clients :
       SaveReturns(c) =>
         /\ ret'[c] \in {TRUE, FALSE}
         /\ ret'[c] = TRUE <=>
              (pc[c] = "upVerify" /\ faults' = faults
                 /\ verify_file_integrity(localf[c], remote))
         /\ ret'[c] = TRUE => NewKey(c) \in seen'
         /\ (ret'[c] = TRUE /\ intact[c]) => NewKey(c) \in Keys(remote')]_vars

\* C3 witness: a save_to_csv has returned True and the remote ledger holds its record.
C3_Witness ==
  \E c \in Clients :
    /\ pc[c] = "idle" /\ op[c] = "save" /\ ret[c] = TRUE
    /\ NewKey(c) \in Keys(remote)

\* C4: without transport faults, once every upload has completed (no client is inside
\* an operation) the remote ledger is the full ledger of the client whose put landed
\* last (last write wins).
C4_LastWriteWins ==
  (lastWriter \in Clients /\ AllIdle) => remote = localf[lastWriter]

\* C4 witness: both clients appended once, both returned True, and the remote ledger
\* holds the record of only one of them (the lost update).
C4_Witness ==
  /\ \A c \in Clients : pc[c] = "idle" /\ op[c] = "save" /\ ops[c] = 1 /\ ret[c] = TRUE
  /\ faults = 0
  /\ Cardinality({c \in Clients : NewKey(c) \in Keys(remote)}) = 1
  /\ remote = localf[lastWriter]

\* C5: while a client's put of the ledger is in progress, no other client's get
\* copies an artifact that is not a complete ledger (every ledger that is written
\* starts with its header line, so a zero-byte artifact is a partial one).
C5_NoPartialLedgerSeen ==
  [][\A c \in Clients :
       ( /\ pc[c] = "dl" /\ pc'[c] = "dlVerify"
         /\ \E d \in Clients \ {c} : pc[d] = "upWrite" )
       => ~EmptyData(localf'[c])]_vars

\* C6: a pass that finds no remote ledger creates the empty canonical ledger and
\* reports no error when there is no local ledger, and leaves the rows of an
\* existing local ledger unchanged.
C6_NotFoundKeepsLocal ==
  [][\A c \in Clients :
       (pc[c] = "dl" /\ ~remote.exists /\ faults' = faults /\ pc'[c] = "synced")
       => IF localf[c].exists
          THEN localf'[c].rows = localf[c].rows
          ELSE localf'[c] = EmptyLedger /\ syncRes'[c] = TRUE]_vars

\* the artifact is empty (no bytes, or no data line) or does not parse
EmptyOrUnparseable(f) == EmptyData(f) \/ ParserFails(f) \/ FrameEmpty(ReadCsv(f, {}))

\* C7: when the download succeeded and the downloaded ledger is empty or does not
\* parse, the pass leaves the empty canonical ledger locally and returns False.
C7_CorruptReinitialised ==
  [][\A c \in Clients :
       ( /\ pc[c] = "dlVerify" /\ pc'[c] = "synced" /\ faults' = faults
         /\ verify_file_integrity(localf[c], remote)
         /\ EmptyOrUnparseable(localf[c]) )
       => (localf'[c] = EmptyLedger /\ syncRes'[c] = FALSE)]_vars

\* C8: when a synchronisation pass returns True, the remote ledger exists and its
\* content is the local ledger.
C8_SyncEndsWithUpload ==
  [][\A c \in Clients :
       (SyncEnds(c) /\ syncRes'[c]) => (remote'.exists /\ remote' = localf'[c])]_vars

\* C9: the ledger save_to_csv writes is the lines of the loaded ledger whose estado
\* is not 'X', in order and with their field values as they stood, followed by the
\* new record.
C9_AppendKeepsRows ==
  [][\A c \in Clients :
       (LocalWrite(c) /\ op[c] = "save")
       => localf'[c].rows
            = RawLiveRows(localf[c])
              \o ToCsv(NewFrame(nuevo_registro(c, ops[c])), TRUE).rows]_vars

\* C10: a purge (the confirmed baja of main, the purge of save_to_csv) writes the
\* records of the prior ledger minus exactly those flagged Deactivated ('X').
C10_PurgeRemovesOnlyX ==
  [][\A c \in Clients :
       LocalWrite(c)
       => Keys(localf'[c]) \ {NewKey(c)}
            = (Keys(localf[c]) \ flagged'[c]) \ {NewKey(c)}]_vars

\* C11: rows leave the ledger only after the caller's confirmation: a run of main that
\* ends without the confirmed baja (rows marked but not confirmed, or cancelled)
\* leaves the local and the remote ledger as they were, and the ledger save_to_csv
\* writes still holds every row that was flagged 'X' (no confirmation is given there).
C11_PurgeOnlyOnConfirm ==
  [][\A c \in Clients :
       /\ (pc[c] = "synced" /\ op[c] = "confirm" /\ pc'[c] = "idle")
            => (localf'[c] = localf[c] /\ remote' = remote)
       /\ (LocalWrite(c) /\ op[c] = "save")
            => KeysX(localf[c]) \subseteq Keys(localf'[c])]_vars

\* the keys of the lines of artifact f whose estado is not 'X'
KeysNotX(f) ==
  IF ColIdx(f, "timestamp") = 0 \/ ColIdx(f, "estado") = 0 THEN {}
  ELSE {Field(LinesOf(f)[i], ColIdx(f, "timestamp")) :
          i \in {j \in DOMAIN LinesOf(f) : ~IsX(Field(LinesOf(f)[j], ColIdx(f, "estado")))}}

\* C12: a row stored in a ledger (local or remote) with estado 'X' is not stored in
\* that ledger with another estado by any later write.
C12_DeactivatedNeverBack ==
  [][/\ KeysX(remote) \cap KeysNotX(remote') = {}
     /\ \A c \in Clients : KeysX(localf[c]) \cap KeysNotX(localf'[c]) = {}]_vars

\* the keys of the lines of artifact f whose notified flag (column correo) is 1; a
\* ledger without the column has no notified row
NotifiedKeys(f) ==
  IF ColIdx(f, "timestamp") = 0 \/ ColIdx(f, "correo") = 0 THEN {}
  ELSE {Field(LinesOf(f)[i], ColIdx(f, "timestamp")) :
          i \in {j \in DOMAIN LinesOf(f) :
                   Field(LinesOf(f)[j], ColIdx(f, "correo")) \in {<<"1">>, <<"1", ".", "0">>}}}

\* C13: no write of a ledger (local or remote) takes the notified flag of a row that
\* stays in it from 1 to 0.
C13_NotifiedNeverReset ==
  [][/\ (NotifiedKeys(remote) \cap Keys(remote')) \subseteq NotifiedKeys(remote')
     /\ \A c \in Clients :
          (NotifiedKeys(localf[c]) \cap Keys(localf'[c])) \subseteq NotifiedKeys(localf'[c])]_vars

\* C20: upload_remote_file called with a local path that does not exist returns False
\* in its first step, with no session opened, no connection attempt failed and the
\* remote store as it was.
C20_MissingLocalNoUpload ==
  [][\A c \in Clients :
       (pc[c] = "up" /\ ~localf[c].exists /\ <<pc[c], attempt[c]>> # <<pc'[c], attempt'[c]>>)
       => /\ pc'[c] = "idle" /\ ret'[c] = FALSE
          /\ remote' = remote
          /\ sess' = sess /\ faults' = faults]_vars

\* C20 witness: an upload of a missing local ledger has returned False
C20_Witness ==
  \E c \in Clients :
    pc[c] = "idle" /\ op[c] = "upload" /\ ret[c] = FALSE /\ ~localf[c].exists

\* C17: when the size check after a put finds the remote size different from the
\* local size, the remote artifact is deleted (and the transfer retried or failed).
C17_UploadMismatchDeleted ==
  [][\A c \in Clients :
       ( /\ pc[c] = "upVerify" /\ pc'[c] # "upVerify" /\ faults' = faults
         /\ ~verify_file_integrity(localf[c], remote) )
       => /\ ~remote'.exists
          /\ pc'[c] \in {"up", "idle"}
          /\ pc'[c] = "idle" => ret'[c] = FALSE]_vars

\* C18: a download of an existing remote file returns True only if the local copy's
\* size is the remote file's size; on a mismatch the local copy is deleted (and the
\* transfer retried or failed).
C18_DownloadMismatchDeleted ==
  [][\A c \in Clients :
       /\ (pc[c] = "dlVerify" /\ pc'[c] = "synced" /\ dlRes'[c] = TRUE)
            => FileSize(localf[c]) = FileSize(remote)
       /\ ( /\ pc[c] = "dlVerify" /\ pc'[c] # "dlVerify" /\ faults' = faults
            /\ ~verify_file_integrity(localf[c], remote) /\ pc'[c] = "dl" )
            => ~localf'[c].exists]_vars

\* the values download_remote_file returns for a completed transfer and for a
\* connection or integrity failure
TransferOutcomes == {TRUE, FALSE}

\* C19: a download that finds no file at the remote path returns a value that is
\* neither the value of a completed transfer nor the value of a failure.
C19_NotFoundDistinct ==
  [][\A c \in Clients :
       (pc[c] = "dl" /\ ~remote.exists /\ faults' = faults /\ pc'[c] = "synced")
       => dlRes'[c] \notin TransferOutcomes]_vars

\* every exception ssh.connect raised in the current get_connection of p was a
\* transport fault
OnlyTransport(p) == \A i \in DOMAIN errs[p] : errs[p][i] = "transport"

\* C14: in both programs, a get_connection whose every attempt met a transport fault
\* returns None after exactly MAX_RETRIES attempts and MAX_RETRIES - 1 waits of
\* RETRY_DELAY, one between each two consecutive attempts and none after the last;
\* a get_connection that returned a session made its last attempt then.
C14_ConnectRetries ==
  \A p \in Programs :
    OnlyTransport(p) =>
      /\ (cpc[p] = "idle" /\ conn[p] = "None")
           => (tries[p] = MAX_RETRIES /\ slept[p] = (MAX_RETRIES - 1) * RETRY_DELAY)
      /\ cpc[p] = "connect" => slept[p] = tries[p] * RETRY_DELAY
      /\ cpc[p] = "wait" => slept[p] = (tries[p] - 1) * RETRY_DELAY
      /\ conn[p] = "session"
           => (tries[p] = Len(errs[p]) + 1 /\ slept[p] = Len(errs[p]) * RETRY_DELAY)

\* C14 witness: in each program a get_connection has returned None after three
\* transport faults
C14_Witness ==
  \A p \in Programs :
    cpc[p] = "idle" /\ conn[p] = "None" /\ errs[p] = <<"transport", "transport", "transport">>

\* C15: in both programs, an attempt that fails with an authentication error ends
\* get_connection at once: None is returned and no wait is taken.
C15_AuthFailsAtOnce ==
  [][\A p \in Programs :
       errs'[p] = Append(errs[p], "auth")
       => (cpc'[p] = "idle" /\ conn'[p] = "None" /\ slept'[p] = slept[p])]_vars

\* C16: a client holds at most one session at a time, and none once the operation
\* that opened it has returned (or between the attempts of a transfer): every
\* session is closed, once, on the path that leaves the attempt.
C16_SessionsClosed ==
  /\ \A c \in Clients :
       /\ sess[c] \in {0, 1}
       /\ pc[c] \in {"idle", "dl", "synced", "up"} => sess[c] = 0
  /\ \A p \in Programs :
       /\ csess[p] \in {0, 1}
       /\ cpc[p] # "body" => csess[p] = 0

\* C16 witness: a download of the registration client and a download of the viewer
\* have both returned True, each having held a session
C16_Witness ==
  /\ \E c \in Clients :
       pc[c] = "idle" /\ op[c] = "sync" /\ dlRes[c] = TRUE /\ remote.exists /\ sess[c] = 0
  /\ cpc["enfermera15"] = "idle" /\ cop["enfermera15"] = "download_file"
  /\ cret["enfermera15"] = "True" /\ csess["enfermera15"] = 0

\* the artifact parses and lacks a canonical column
LacksColumn(f) ==
  f.exists /\ ~EmptyData(f) /\ ~ParserFails(f) /\ ~(Range(columns) \subseteq Range(f.header))

\* C21: loading a ledger that lacks a canonical column back-fills the column and goes
\* on: save_to_csv keeps the existing rows (those not purged as 'X') and writes a
\* ledger with every canonical column; the viewer's load_data returns a frame with
\* every canonical column and the existing rows.
C21_MissingColumnsBackfilled ==
  [][/\ \A c \in Clients :
          (pc[c] = "synced" /\ op[c] = "save" /\ LacksColumn(localf[c]) /\ pc'[c] # "synced")
          => /\ pc'[c] = "up"
             /\ Range(columns) \subseteq Range(localf'[c].header)
             /\ (Keys(localf[c]) \ KeysX(localf[c])) \subseteq Keys(localf'[c])
     /\ (cpc["enfermera15"] = "parse" /\ cpc'["enfermera15"] = "idle" /\ LacksColumn(vlocal))
          => /\ Range(columns) \subseteq Range(vdata'.cols)
             /\ Len(vdata'.rows) = Len(vlocal.rows)]_vars

\* the field as loaded equals the field as stored: the same text, or for a measurement
\* the same number, or for the timestamp the same time
SameField(col, stored, loaded) ==
  \/ loaded = stored
  \/ /\ col \in {"temperatura", "oximetria"}
     /\ IsFloatText(stored) /\ IsFloatText(loaded)
     /\ FloatRepr(loaded) = FloatRepr(stored)
  \/ col = "timestamp" /\ stored # <<>> /\ loaded = ToDatetime(stored)

\* data frame df holds a row for the submitted record data: every field cleaned
HoldsRecord(df, data) ==
  \E i \in DOMAIN df.rows :
    \A col \in Range(columns) :
      col \in DOMAIN df.rows[i] /\ SameField(col, CleanText(data[col]), df.rows[i][col])

\* C22: a record saved by save_to_csv is reproduced by the load of the ledger, in main
\* of the registration client and in the viewer's load_data: each field equals the
\* submitted one, newline-collapsed and trimmed, the patientId being the same
\* 10-digit text.
C22_RecordRoundTrip ==
  [][/\ \A c \in Clients :
          (LocalWrite(c) /\ op[c] = "save")
          => HoldsRecord(MainLoad(localf'[c]), nuevo_registro(c, ops[c]))
     /\ (cpc["enfermera15"] = "parse" /\ cpc'["enfermera15"] = "idle")
          => \A c \in Clients : \A n \in 1..ops[c] :
               CleanText(nuevo_registro(c, n).timestamp) \in Keys(vlocal)
               => HoldsRecord(vdata', nuevo_registro(c, n))]_vars

RECURSIVE CollapseRuns(_)
\* s with every maximal run of CR and LF characters replaced by one space
CollapseRuns(s) ==
  IF s = <<>> THEN <<>>
  ELSE IF s[1] \in {CR, LF}
       THEN IF Len(s) >= 2 /\ s[2] \in {CR, LF} THEN CollapseRuns(Tail(s))
            ELSE <<" ">> \o CollapseRuns(Tail(s))
  ELSE <<s[1]>> \o CollapseRuns(Tail(s))

\* C23: a text field of a new record is stored with every maximal run of CR and LF
\* characters replaced by a single space and without leading or trailing whitespace;
\* the stored field holds no CR and no LF.
C23_FieldsCollapsedAndTrimmed ==
  cleaned # <<>> =>
    /\ cleaned[1] = Strip(CollapseRuns(field))
    /\ \A i \in DOMAIN cleaned[1] : cleaned[1][i] \notin {CR, LF}

LastRowWellFormed(f) ==
  /\ f.rows # <<>>
  /\ LET row == RawRow(f, Len(f.rows))
         at(col) == row[IndexOf(columns, col)]
     IN /\ IsDigits(at("id_paciente")) /\ Len(at("id_paciente")) = 10
        /\ \A col \in {"nombre_paciente", "presion_arterial", "temperatura", "oximetria"} :
             at(col) # <<>>

\* C25: a submission whose patientId is not exactly 10 digits or that has an empty
\* required field is rejected with no I/O (no save_to_csv, no session, no write of the
\* local or the remote ledger), and every row the client appends has a 10-digit
\* patientId and non-empty required fields.
C25_InvalidRejectedBeforeIO ==
  [][\A c \in Clients :
       /\ (ops'[c] = ops[c] + 1 /\ ~Valid(form'[c]))
            => /\ pc'[c] = "idle" /\ op'[c] = "rejected"
               /\ remote' = remote /\ localf' = localf /\ sess' = sess
       /\ (LocalWrite(c) /\ op[c] = "save") => LastRowWellFormed(localf'[c])]_vars

\* C26: when the synchronisation at the start of save_to_csv has failed, save_to_csv
\* still appends the new record to the local ledger and goes on to the upload, and it
\* returns False exactly when the new record did not reach the remote ledger.
C26_SaveProceedsAfterFailedSync ==
  [][\A c \in Clients :
       /\ (pc[c] = "synced" /\ op[c] = "save" /\ ~syncRes[c] /\ pc'[c] # "synced")
            => (pc'[c] = "up" /\ NewKey(c) \in Keys(localf'[c]))
       /\ (SaveReturns(c) /\ ~syncRes[c])
            => (ret'[c] = FALSE <=> NewKey(c) \notin Keys(remote'))]_vars

\* C27: under any pattern of faults a transfer makes at most MAX_RETRIES attempts,
\* download_remote_file, sync_with_remote, upload_remote_file and save_to_csv return
\* True or False, and every operation that has started returns.
C27_OperationsTerminate ==
  /\ [](\A c \in Clients : attempt[c] \in 0..(MAX_RETRIES - 1))
  /\ \A c \in Clients : (pc[c] # "idle") ~> (pc[c] = "idle")

\* C27 witness: a save_to_csv whose download succeeded has returned False after each
\* of the MAX_RETRIES attempts of its upload met a fault
C27_Witness ==
  /\ pc[1] = "idle" /\ op[1] = "save" /\ ops[1] = 1
  /\ dlRes[1] = TRUE /\ syncRes[1] = TRUE
  /\ ret[1] = FALSE /\ faults = MAX_RETRIES

\* C28: during one call of download_remote_file or upload_remote_file, the connection
\* attempts made, counted across all the retries of the call, never exceed MAX_RETRIES.
C28_AtMostThreeConnects ==
  \A p \in Programs : cop[p] \in TransferOps => connects[p] <= MAX_RETRIES

\* C29: when the save_to_csv calls of two clients do not overlap and every transfer
\* succeeds, then after both have finished the remote ledger holds both new records
\* and every record it held before that is not flagged 'X'.
C29_SerialSavesKeepAll ==
  (AllIdle /\ \A c \in Clients : op[c] = "save" /\ ops[c] = 1)
  => /\ \A c \in Clients : NewKey(c) \in Keys(remote)
     /\ \A k \in seen : k \in Keys(remote) \/ k \in purgedX

\* C30: no step of the viewer's operations (load_data, download_file, get_all_ecgs,
\* test_connection), whether the operation succeeds or fails, changes the remote
\* ledger or the remote ECG folder.
C30_ViewerReadOnly ==
  [][cpc'["enfermera15"] # cpc["enfermera15"] => (remote' = remote /\ ecgs' = ecgs)]_vars

\* C30 witness: the viewer has run two operations, the last a load_data that returned
\* the records of the remote ledger, which is still there
C30_Witness ==
  /\ calls = 2
  /\ cpc["enfermera15"] = "idle" /\ cop["enfermera15"] = "load_data"
  /\ cret["enfermera15"] = "frame"
  /\ remote.exists /\ ecgs = EcgFolder
====
